---- MODULE Spec2Model ----
(***************************************************************************)
(* Model of the telemetry scripts:                                         *)
(*   scripts/rosbag-parser/rosbag_parser.py      (serializer, extractor)   *)
(*   scripts/test_ros_map/test_data_publisher.py (pose / path synthesizer) *)
(*   scripts/dbc-to-json/dbc-to-json.py          (signal table decoder)    *)
(* Each component has its own specification over the shared variables:     *)
(*   SpecSerialize, SpecExtract, Spec (publisher loop), SpecDbc.           *)
(***************************************************************************)
EXTENDS Integers, Sequences, FiniteSets, TLC

VARIABLES
    \* ---- message_to_dict driver ----
    spc,            \* "input" | "once" | "twice"
    msg,            \* the record handed to message_to_dict
    result,         \* message_to_dict(msg)
    result2,        \* message_to_dict(result)
    \* ---- extract_topic / extract_all_topics ----
    epc,            \* position in the running extraction
    bag,            \* the record source, ordered by time
    call,           \* the operation called and its arguments
    bag_open,       \* rosbag.Bag(...) opened and not yet closed
    topics,         \* extract_all_topics: the list of topics being walked
    tix,            \* extract_all_topics: index of the current topic
    queue,          \* records the running read_messages() has still to yield
    messages,       \* the list `messages` of the running pass
    emitted,        \* every record appended so far, with its place in the bag
    files,          \* output files written: name and content
    reports,        \* topics reported as "No messages found"
    \* ---- TestDataPublisher.publish_data ----
    ppc,            \* position in publish_data, and how the loop was left
    pbag_open,      \* self.bag opened and not yet closed
    nread,          \* records read_messages() has yielded so far
    record,         \* topic and msg of the record of the last turn
    path_history,   \* self.path_history
    accepted,       \* navigation records appended to the history so far
    state_published,\* messages published on /state_estimation
    published_odom, \* the last message published on /state_estimation
    paths_published,\* messages published on /path
    published_path, \* the poses of the last message published on /path
    \* ---- parse_dbc ----
    dpc,            \* position in parse_dbc
    db,             \* the messages of the database walked so far
    signals,        \* the list `signals` of the message being walked
    dbc_messages    \* the list `messages`

serVars == <<spc, msg, result, result2>>
extVars == <<epc, bag, call, bag_open, topics, tix, queue, messages, emitted,
             files, reports>>
pubVars == <<ppc, pbag_open, nread, record, path_history, accepted,
             state_published, published_odom, paths_published, published_path>>
dbcVars == <<dpc, db, signals, dbc_messages>>
vars == <<serVars, extVars, pubVars, dbcVars>>

(***************************************************************************)
(* Python values.  A value is a record tagged by k:                        *)
(*   "bytes"  : b     a raw byte sequence                                  *)
(*   "scalar" : t, v  a str / int / None scalar (v is its text)            *)
(*   "slots"  : slots, attrs   an object with __slots__; a slot missing    *)
(*                    from DOMAIN attrs cannot be read (getattr raises)    *)
(*   "dict"   : items a mapping key -> value                               *)
(*   "list"   : elems a list of values                                     *)
(* Raise stands for an exception propagating out of a call.                *)
(***************************************************************************)
Raise == [k |-> "raise"]

Bytes(b) == [k |-> "bytes", b |-> b]
PyStr(s) == [k |-> "scalar", t |-> "str", v |-> s]
PyInt(s) == [k |-> "scalar", t |-> "int", v |-> s]
SlotObj(slots, attrs) == [k |-> "slots", slots |-> slots, attrs |-> attrs]
Dict(items) == [k |-> "dict", items |-> items]
List(elems) == [k |-> "list", elems |-> elems]

IsBytes(x) == x.k = "bytes"
HasSlots(x) == x.k = "slots"
IsDict(x) == x.k = "dict"
IsList(x) == x.k = "list"

\* ---- bounds of the value universe ----
MaxDepth == 3
MaxListLen == 2

\* ---- base64.b64encode(...).decode('utf-8') ----
B64Alphabet ==
    << "A","B","C","D","E","F","G","H","I","J","K","L","M","N","O","P",
       "Q","R","S","T","U","V","W","X","Y","Z","a","b","c","d","e","f",
       "g","h","i","j","k","l","m","n","o","p","q","r","s","t","u","v",
       "w","x","y","z","0","1","2","3","4","5","6","7","8","9","+","/" >>

B64Char(i) == B64Alphabet[i + 1]

RECURSIVE B64Encode(_)
B64Encode(b) ==
    IF Len(b) = 0 THEN ""
    ELSE IF Len(b) = 1 THEN
        B64Char(b[1] \div 4) \o B64Char((b[1] % 4) * 16) \o "=="
    ELSE IF Len(b) = 2 THEN
        B64Char(b[1] \div 4) \o B64Char((b[1] % 4) * 16 + b[2] \div 16)
            \o B64Char((b[2] % 16) * 4) \o "="
    ELSE
        B64Char(b[1] \div 4) \o B64Char((b[1] % 4) * 16 + b[2] \div 16)
            \o B64Char((b[2] % 16) * 4 + b[3] \div 64) \o B64Char(b[3] % 64)
            \o B64Encode(SubSeq(b, 4, Len(b)))

\* {'_type': 'bytes', '_data': base64 text}
TagBytes(b) ==
    Dict([key \in {"_type", "_data"} |->
            IF key = "_type" THEN PyStr("bytes") ELSE PyStr(B64Encode(b))])

\* isinstance(x, bytes)
IsInstanceBytes(x) == IsBytes(x)

\* Propagation of an exception raised while building a container.
AnyRaise(f) == \E i \in DOMAIN f : f[i] = Raise

(***************************************************************************)
(* message_to_dict (rosbag_parser.py:34-59).                               *)
(***************************************************************************)
RECURSIVE message_to_dict(_)
\* line 48: the list held by a slot
ConvertSlotList(value) ==
    LET out == [i \in DOMAIN value.elems |->
                  IF HasSlots(value.elems[i]) \/ IsInstanceBytes(value.elems[i])
                  THEN message_to_dict(value.elems[i])
                  ELSE value.elems[i]]
    IN IF AnyRaise(out) THEN Raise ELSE List(out)

\* lines 43-50: the value stored for one slot
SlotValue(value) ==
    IF IsInstanceBytes(value) THEN TagBytes(value.b)
    ELSE IF HasSlots(value) THEN message_to_dict(value)
    ELSE IF IsList(value) THEN ConvertSlotList(value)
    ELSE value

\* getattr(msg, slot), line 42: AttributeError for a slot that is not set
GetattrRaises(m) == \E i \in DOMAIN m.slots : m.slots[i] \notin DOMAIN m.attrs

\* lines 39-51
ConvertSlots(m) ==
    IF GetattrRaises(m) THEN Raise
    ELSE LET out == [s \in DOMAIN m.attrs |-> SlotValue(m.attrs[s])]
         IN IF AnyRaise(out) THEN Raise ELSE Dict(out)

\* a comprehension that filters instead of passing scalars through
ConvertDictFilter(m) ==
    LET keep == { key \in DOMAIN m.items :
                    LET v == m.items[key]
                    IN IsDict(v) \/ IsList(v) \/ IsInstanceBytes(v) \/ HasSlots(v) }
        out == [key \in keep |-> message_to_dict(m.items[key])]
    IN IF AnyRaise(out) THEN Raise ELSE Dict(out)

\* lines 52-54
ConvertDict(m) ==
    LET out == [key \in DOMAIN m.items |->
                  LET v == m.items[key]
                  IN IF IsDict(v) \/ IsList(v) \/ IsInstanceBytes(v) \/ HasSlots(v)
                     THEN message_to_dict(v) ELSE v]
    IN IF AnyRaise(out) THEN Raise ELSE Dict(out)

\* lines 55-57
ConvertList(m) ==
    LET out == [i \in DOMAIN m.elems |->
                  LET item == m.elems[i]
                  IN IF HasSlots(item) \/ IsDict(item) \/ IsInstanceBytes(item)
                     THEN message_to_dict(item) ELSE item]
    IN IF AnyRaise(out) THEN Raise ELSE List(out)

message_to_dict(m) ==
    IF IsInstanceBytes(m) THEN TagBytes(m.b)
    ELSE IF HasSlots(m) THEN ConvertSlots(m)
    ELSE IF IsDict(m) THEN ConvertDict(m)
    ELSE IF IsList(m) THEN ConvertList(m)
    ELSE m

(***************************************************************************)
(* The input universe: values nested to MaxDepth.                          *)
(***************************************************************************)
ByteSeqs == { <<>>, <<77>>, <<255, 0, 16, 131>> }
Leaves == { Bytes(<<77>>), PyStr("s"), PyInt("7") }

SeqsUpTo(S, n) == UNION { [1..len -> S] : len \in 0..n }

\* what a list of several elements holds: leaves, tagged bytes nodes, a dict
ListElems == Leaves \cup { TagBytes(b) : b \in ByteSeqs }
                    \cup { Dict([key \in {"a"} |-> PyStr("s")]) }

RECURSIVE Values(_)
Values(d) ==
    IF d = 0 THEN Leaves
    ELSE LET sub == Values(d - 1)
         IN sub
            \cup { TagBytes(b) : b \in ByteSeqs }
            \cup { SlotObj(<<"f">>, [s \in {"f"} |-> v]) : v \in sub }
            \cup { SlotObj(<<"f">>, <<>>) }
            \cup { Dict([key \in {"a"} |-> v]) : v \in sub }
            \cup { List(<<v>>) : v \in sub }
            \cup { List(e) : e \in SeqsUpTo(ListElems, MaxListLen) }

RECURSIVE HasRawBytes(_)
\* a raw byte sequence occurs somewhere in the tree
HasRawBytes(x) ==
    IF IsBytes(x) THEN TRUE
    ELSE IF HasSlots(x) THEN \E s \in DOMAIN x.attrs : HasRawBytes(x.attrs[s])
    ELSE IF IsDict(x) THEN \E key \in DOMAIN x.items : HasRawBytes(x.items[key])
    ELSE IF IsList(x) THEN \E i \in DOMAIN x.elems : HasRawBytes(x.elems[i])
    ELSE FALSE

RECURSIVE IsCanonical(_)
\* a canonical tree: dicts, lists, scalars and tagged bytes nodes only
IsCanonical(x) ==
    IF IsBytes(x) \/ HasSlots(x) THEN FALSE
    ELSE IF IsDict(x) THEN \A key \in DOMAIN x.items : IsCanonical(x.items[key])
    ELSE IF IsList(x) THEN \A i \in DOMAIN x.elems : IsCanonical(x.elems[i])
    ELSE x.k = "scalar"

NoValue == [k |-> "unset"]

SerInit ==
    /\ spc = "input"
    /\ msg \in Values(MaxDepth)
    /\ result = NoValue
    /\ result2 = NoValue

SerIdle ==
    /\ spc = "idle"
    /\ msg = NoValue
    /\ result = NoValue
    /\ result2 = NoValue

\* result = message_to_dict(msg)
Serialize ==
    /\ spc = "input"
    /\ result' = message_to_dict(msg)
    /\ spc' = "once"
    /\ UNCHANGED <<msg, result2>>
    /\ UNCHANGED <<extVars, pubVars, dbcVars>>

\* result2 = message_to_dict(result), the tree taken as the record
Reserialize ==
    /\ spc = "once"
    /\ result # Raise
    /\ result2' = message_to_dict(result)
    /\ spc' = "twice"
    /\ UNCHANGED <<msg, result>>
    /\ UNCHANGED <<extVars, pubVars, dbcVars>>

(***************************************************************************)
(* Claims about message_to_dict, checked under SpecSerialize.              *)
(***************************************************************************)
Serialized == spc \in {"once", "twice"} /\ result # Raise

\* C4: the tree returned by message_to_dict holds no raw byte sequence
\* anywhere, whatever the nesting of the input record.
C4_NoRawBytesInTree == Serialized => ~HasRawBytes(result)

\* C7: message_to_dict maps every canonical tree to itself, and a second
\* serialization of a canonical first result returns that result.
C7_Idempotent ==
    /\ (Serialized /\ IsCanonical(msg)) => result = msg
    /\ (spc = "twice" /\ IsCanonical(result)) => result2 = result

\* C7 witness: a canonical list holding a tagged bytes node and a dict has
\* been serialized twice.
C7_Witness ==
    /\ spc = "twice"
    /\ IsCanonical(msg)
    /\ IsList(msg)
    /\ Len(msg.elems) = 2
    /\ msg.elems[1] = TagBytes(<<255, 0, 16, 131>>)
    /\ IsDict(msg.elems[2])
    /\ result2 = msg

(***************************************************************************)
(* Time.  A ROS time is [secs, nsecs]; a float number of seconds (the      *)
(* start_time / end_time arguments, get_start_time()) is held as a whole   *)
(* number of microseconds.  None (an absent argument) is <<>>, a given     *)
(* value x is <<x>>.                                                       *)
(***************************************************************************)
None == << >>
Some(x) == << x >>
IsNone(o) == o = None
Val(o) == o[1]

Time(secs, nsecs) == [secs |-> secs, nsecs |-> nsecs]
TimeLE(a, b) == a.secs < b.secs \/ (a.secs = b.secs /\ a.nsecs <= b.nsecs)

\* rosbag.rostime.Time.from_sec(float_secs)
from_sec(us) == Time(us \div 1000000, (us % 1000000) * 1000)
\* Time.to_sec()
to_sec(t) == t.secs * 1000000 + t.nsecs \div 1000

\* a timestamp that forgets to scale the seconds
ros_time_to_timestamp_unscaled(ros_time) ==
    ros_time.secs + ros_time.nsecs \div 1000000

\* rosbag_parser.py:24-31: int(secs * 1000 + nsecs / 1000000)
ros_time_to_timestamp(ros_time) ==
    ros_time.secs * 1000 + ros_time.nsecs \div 1000000

\* Python truthiness of an optional number: None and 0 are false
Truthy(o) == ~IsNone(o) /\ Val(o) # 0

(***************************************************************************)
(* Topics are names, kept as sequences of characters.                      *)
(***************************************************************************)
TopicA == << "/", "a", "/", "b" >>
TopicB == << "/", "a", "_", "b" >>
Topics == { TopicA, TopicB }

\* topic.replace('/', '_').replace('~', '_'), line 134
topic_name_safe(topic) ==
    [i \in DOMAIN topic |-> IF topic[i] \in {"/", "~"} THEN "_" ELSE topic[i]]

\* args.topic.replace('/', '_'), line 230
default_output(topic) ==
    [i \in DOMAIN topic |-> IF topic[i] = "/" THEN "_" ELSE topic[i]]

(***************************************************************************)
(* The record source.                                                      *)
(***************************************************************************)
MaxBag == 3

BagTimes == { Time(0, 500000000), Time(1, 0), Time(1, 999999) }
WindowTimes == { None, Some(0), Some(1000000) }

\* a complete record, and a partial one whose slot `raw` cannot be read
OkMsg == SlotObj(<<"data", "raw">>,
                 [s \in {"data", "raw"} |->
                    IF s = "data" THEN PyInt("7") ELSE Bytes(<<77>>)])
BadMsg == SlotObj(<<"data", "raw">>, [s \in {"data"} |-> PyInt("7")])
BagMsgs == { OkMsg, BadMsg }

BagRecords == [topic : Topics, t : BagTimes, msg : BagMsgs]

\* the bag index keeps the records in time order
Bags == { b \in UNION { [1..n -> BagRecords] : n \in 1..MaxBag } :
            \A i \in 1..(Len(b) - 1) : TimeLE(b[i].t, b[i + 1].t) }

\* bag.get_start_time(), bag.get_end_time()
get_start_time(b) == to_sec(b[1].t)
get_end_time(b) == to_sec(b[Len(b)].t)

RECURSIVE SelectIdx(_, _, _)
\* the indices i of 1..n, in order, that satisfy keep[i]
SelectIdx(keep, i, n) ==
    IF i > n THEN << >>
    ELSE IF keep[i] THEN << i >> \o SelectIdx(keep, i + 1, n)
    ELSE SelectIdx(keep, i + 1, n)

\* bag.read_messages(topics=[topic], start_time=st, end_time=et): the records
\* of the topic with st <= t <= et, in bag order; None leaves a side open
read_messages(b, topic, st, et) ==
    LET keep == [i \in 1..Len(b) |->
                    /\ b[i].topic = topic
                    /\ (IsNone(st) \/ TimeLE(Val(st), b[i].t))
                    /\ (IsNone(et) \/ TimeLE(b[i].t, Val(et)))]
    IN SelectIdx(keep, 1, Len(b))

\* lines 97-98 / 138-139
start_time_ros == IF IsNone(call.start_time) THEN get_start_time(bag)
                  ELSE Val(call.start_time)
end_time_ros == IF IsNone(call.end_time) THEN get_end_time(bag)
                ELSE Val(call.end_time)

\* lines 102-103 / 143-144: the bounds handed to read_messages
StartArg == IF Truthy(call.start_time) THEN Some(from_sec(start_time_ros)) ELSE None
EndArg == IF Truthy(call.end_time) THEN Some(from_sec(end_time_ros)) ELSE None

\* list(bag.get_type_and_topic_info()[1].keys()): the topics of the bag, in
\* the order the index happens to list them
BagTopics(b) == { b[i].topic : i \in DOMAIN b }
Orderings(S) == { o \in [1..Cardinality(S) -> S] :
                    \A i, j \in DOMAIN o : i # j => o[i] # o[j] }

TopicLists == { <<TopicA>>, <<TopicB, TopicA>> }

Calls ==
    [op : {"extract_topic"}, topic_name : Topics, topics : {None},
     start_time : WindowTimes, end_time : WindowTimes]
    \cup
    [op : {"extract_all_topics"}, topic_name : {None},
     topics : {None} \cup { Some(l) : l \in TopicLists },
     start_time : WindowTimes, end_time : WindowTimes]

ExtInit ==
    /\ epc = "call"
    /\ bag \in Bags
    /\ call \in Calls
    /\ bag_open = FALSE
    /\ topics = << >>
    /\ tix = 0
    /\ queue = << >>
    /\ messages = << >>
    /\ emitted = << >>
    /\ files = {}
    /\ reports = {}

ExtIdle ==
    /\ epc = "idle"
    /\ bag = << >>
    /\ call = None
    /\ bag_open = FALSE
    /\ topics = << >>
    /\ tix = 0
    /\ queue = << >>
    /\ messages = << >>
    /\ emitted = << >>
    /\ files = {}
    /\ reports = {}

WriteFile(name, content) ==
    { f \in files : f.name # name } \cup { [name |-> name, content |-> content] }

\* extract_topic, lines 94-104: open the bag and start the read
ExtractTopicOpen ==
    /\ epc = "call"
    /\ call.op = "extract_topic"
    /\ bag_open' = TRUE
    /\ messages' = << >>
    /\ queue' = read_messages(bag, call.topic_name, StartArg, EndArg)
    /\ epc' = "reading"
    /\ UNCHANGED <<bag, call, topics, tix, emitted, files, reports>>
    /\ UNCHANGED <<serVars, pubVars, dbcVars>>

\* one turn of the for loop, lines 105-111 / 146-151
ReadMessage ==
    /\ epc = "reading"
    /\ queue # << >>
    /\ LET i == Head(queue)
           timestamp == ros_time_to_timestamp(bag[i].t)
           msg_dict == message_to_dict(bag[i].msg)
       IN IF msg_dict = Raise
          THEN \* the exception leaves the function: nothing below runs
               /\ epc' = "raised"
               /\ UNCHANGED <<queue, messages, emitted>>
          ELSE /\ messages' = Append(messages,
                     IF call.op = "extract_topic"
                     THEN [timestamp |-> timestamp, topic |-> bag[i].topic,
                           message |-> msg_dict]
                     ELSE [timestamp |-> timestamp, message |-> msg_dict])
               /\ emitted' = Append(emitted,
                     [src |-> i, pass |-> tix, timestamp |-> timestamp])
               /\ queue' = Tail(queue)
               /\ epc' = "reading"
    /\ UNCHANGED <<bag, call, bag_open, topics, tix, files, reports>>
    /\ UNCHANGED <<serVars, pubVars, dbcVars>>

\* extract_topic, lines 113-120: close, write, return
ExtractTopicFinish ==
    /\ epc = "reading"
    /\ call.op = "extract_topic"
    /\ queue = << >>
    /\ bag_open' = FALSE
    /\ files' = WriteFile(default_output(call.topic_name), messages)
    /\ epc' = "done"
    /\ UNCHANGED <<bag, call, topics, tix, queue, messages, emitted, reports>>
    /\ UNCHANGED <<serVars, pubVars, dbcVars>>

\* extract_all_topics, lines 125-130
ExtractAllOpen ==
    /\ epc = "call"
    /\ call.op = "extract_all_topics"
    /\ bag_open' = TRUE
    /\ IF IsNone(call.topics)
       THEN topics' \in Orderings(BagTopics(bag))
       ELSE topics' = Val(call.topics)
    /\ tix' = 1
    /\ epc' = "topic"
    /\ UNCHANGED <<bag, call, queue, messages, emitted, files, reports>>
    /\ UNCHANGED <<serVars, pubVars, dbcVars>>

\* lines 132-145: next topic of the list, start its read
BeginTopic ==
    /\ epc = "topic"
    /\ tix <= Len(topics)
    /\ messages' = << >>
    /\ queue' = read_messages(bag, topics[tix], StartArg, EndArg)
    /\ epc' = "reading"
    /\ UNCHANGED <<bag, call, bag_open, topics, tix, emitted, files, reports>>
    /\ UNCHANGED <<serVars, pubVars, dbcVars>>

\* lines 153-158: write the topic's file, or report that it is empty
EndTopic ==
    /\ epc = "reading"
    /\ call.op = "extract_all_topics"
    /\ queue = << >>
    /\ IF messages # << >>
       THEN /\ files' = WriteFile(topic_name_safe(topics[tix]), messages)
            /\ UNCHANGED reports
       ELSE /\ reports' = reports \cup { topics[tix] }
            /\ UNCHANGED files
    /\ tix' = tix + 1
    /\ epc' = "topic"
    /\ UNCHANGED <<bag, call, bag_open, topics, queue, messages, emitted>>
    /\ UNCHANGED <<serVars, pubVars, dbcVars>>

\* line 160
ExtractAllClose ==
    /\ epc = "topic"
    /\ tix > Len(topics)
    /\ bag_open' = FALSE
    /\ epc' = "done"
    /\ UNCHANGED <<bag, call, topics, tix, queue, messages, emitted, files, reports>>
    /\ UNCHANGED <<serVars, pubVars, dbcVars>>

(***************************************************************************)
(* Claims about the extractor, checked under SpecExtract.                  *)
(***************************************************************************)
\* the topics the call asks for
RequestedTopics ==
    IF call.op = "extract_topic" THEN { call.topic_name }
    ELSE { topics[i] : i \in DOMAIN topics }

\* the window [start, end] of the call; an absent start is the first
\* timestamp of the source, an absent end the last
WindowStart == IF IsNone(call.start_time) THEN bag[1].t
               ELSE from_sec(Val(call.start_time))
WindowEnd == IF IsNone(call.end_time) THEN bag[Len(bag)].t
             ELSE from_sec(Val(call.end_time))
InWindow(t) == TimeLE(WindowStart, t) /\ TimeLE(t, WindowEnd)

EmittedSources == { emitted[i].src : i \in DOMAIN emitted }

\* C1: a finished extraction has emitted exactly the source records of the
\* requested topics whose timestamp lies in [start, end], bounds of 0
\* included.
C1_FilterExact ==
    epc = "done" =>
        EmittedSources = { i \in DOMAIN bag :
                             bag[i].topic \in RequestedTopics /\ InWindow(bag[i].t) }

\* C5: a field of a record that cannot be read never aborts the extraction.
C5_FieldErrorNeverAborts == epc # "raised"

\* C6: no extraction ends, normally or by an exception, with the record
\* source still open.
C6_SourceReleased == epc \in {"done", "raised"} => ~bag_open

\* C9 as stated: over one whole call, extract_all_topics with all its topics
\* included, records are emitted in source order with non-decreasing
\* millisecond timestamps.
C9_OrderOverWholeCall ==
    \A i, j \in DOMAIN emitted :
        i < j => /\ emitted[i].src < emitted[j].src
                 /\ emitted[i].timestamp <= emitted[j].timestamp

\* C9 amended: within one read pass (one call of extract_topic, or one topic
\* of extract_all_topics) records are emitted in source order with
\* non-decreasing millisecond timestamps.
C9_OrderWithinPass ==
    \A i, j \in DOMAIN emitted :
        (i < j /\ emitted[i].pass = emitted[j].pass) =>
            /\ emitted[i].src < emitted[j].src
            /\ emitted[i].timestamp <= emitted[j].timestamp

\* C9 witness: one pass has emitted two records that lie at different source
\* times within the same millisecond.
C9_Witness ==
    /\ epc = "done"
    /\ Len(emitted) = 2
    /\ emitted[1].pass = emitted[2].pass
    /\ bag[emitted[1].src].t # bag[emitted[2].src].t
    /\ emitted[1].timestamp = emitted[2].timestamp

\* the source holds no record of the topic inside the window of the call
ZeroMatch(topic) ==
    ~\E i \in DOMAIN bag : bag[i].topic = topic /\ InWindow(bag[i].t)

\* C12: in extract_all_topics, the step that ends a topic whose window
\* matches no record writes no file, reports the topic, and goes on to the
\* next topic.
C12_EmptyTopicSkipped ==
    [][ ( /\ epc = "reading"
          /\ call.op = "extract_all_topics"
          /\ epc' = "topic"
          /\ ZeroMatch(topics[tix]) )
        => ( /\ files' = files
             /\ topics[tix] \in reports'
             /\ tix' = tix + 1 ) ]_vars

\* the records the pass of the i-th topic collected, in order
MatchedOfPass(i) ==
    LET OfPass(e) == e.pass = i
    IN SelectSeq(emitted, OfPass)

\* C13: when extract_all_topics has finished, every topic with matches has a
\* file under its filesystem-safe name whose content is exactly the records
\* matched for that topic: no other topic's output has taken its place.
C13_IndependentOutputs ==
    (epc = "done" /\ call.op = "extract_all_topics") =>
        \A i \in DOMAIN topics :
            MatchedOfPass(i) # << >> =>
                \E f \in files :
                    /\ f.name = topic_name_safe(topics[i])
                    /\ Len(f.content) = Len(MatchedOfPass(i))
                    /\ \A k \in DOMAIN f.content :
                          /\ f.content[k].timestamp = MatchedOfPass(i)[k].timestamp
                          /\ f.content[k].message =
                                message_to_dict(bag[MatchedOfPass(i)[k].src].msg)

(***************************************************************************)
(* TestDataPublisher (test_data_publisher.py).                             *)
(* A navigation record is an object with __slots__ whose values are        *)
(* numbers Num(n), None, or nested objects.  Coordinates are whole         *)
(* degrees; roll, pitch and yaw are whole multiples of pi, for which the   *)
(* half-angle sine and cosine of lines 101-106 are -1, 0 or 1.             *)
(***************************************************************************)
Num(n) == [k |-> "num", n |-> n]
PyNone == [k |-> "none"]
IsNum(x) == x.k = "num"

MaxRecords == 112   \* records one run reads from the bag
OddUntil == 3       \* the leading records that need not be regular navigation records
MissingUntil == 1   \* the leading records that may lack any one field

PathWindow == 100   \* self.path_history[-100:]
PathEvery == 10     \* len(self.path_history) % 10 == 0
MinPathPoints == 2  \* len(self.path_history) < 2
DegToMap == 111320  \* * 111320.0

DevpvtTopic == "/chcnav/devpvt"
FixTopic == "/chcnav_fix_demo/fix"
LidarTopic == "/lidar_points"

NavSlots == <<"latitude", "longitude", "altitude", "roll", "pitch", "yaw",
              "enu_velocity", "vehicle_angular_velocity">>
VecSlots == <<"x", "y", "z">>
Vec(x, y, z) ==
    SlotObj(VecSlots, [c \in {"x", "y", "z"} |->
                         IF c = "x" THEN Num(x) ELSE IF c = "y" THEN Num(y) ELSE Num(z)])
NavAttr(s) == IF s = "latitude" THEN Num(1)
              ELSE IF s = "longitude" THEN Num(2)
              ELSE IF s = "altitude" THEN Num(3)
              ELSE IF s = "roll" THEN Num(1)
              ELSE IF s = "pitch" THEN Num(2)
              ELSE IF s = "yaw" THEN Num(1)
              ELSE IF s = "enu_velocity" THEN Vec(4, 5, 6)
              ELSE Vec(7, 8, 9)

SlotNames(m) == { m.slots[i] : i \in DOMAIN m.slots }

\* the object m without the slots S
Without(m, S) ==
    LET Kept(s) == s \notin S
    IN SlotObj(SelectSeq(m.slots, Kept), [s \in DOMAIN m.attrs \ S |-> m.attrs[s]])

\* a regular navigation record
NavFull == SlotObj(NavSlots, [s \in SlotNames([slots |-> NavSlots]) |-> NavAttr(s)])
\* one without altitude
NavNoAltitude == Without(NavFull, {"altitude"})
\* one whose altitude slot cannot be read
NavUnreadableAltitude ==
    SlotObj(NavSlots, [s \in SlotNames(NavFull) \ {"altitude"} |-> NavAttr(s)])
\* one whose latitude is not a number
NavBadLatitude == [NavFull EXCEPT !.attrs["latitude"] = PyNone]
\* one whose altitude is not a number
NavBadAltitude == [NavFull EXCEPT !.attrs["altitude"] = PyNone]
NavOdd == { NavNoAltitude, NavUnreadableAltitude, NavBadLatitude, NavBadAltitude }

\* records that lack one field, one component of a velocity, or every field
NavMissing ==
    { Without(NavFull, {s}) : s \in SlotNames(NavFull) }
        \cup { Without(NavFull, SlotNames(NavFull)) }
        \cup { [NavFull EXCEPT !.attrs[v] = Without(@, {c})] :
                 v \in {"enu_velocity", "vehicle_angular_velocity"},
                 c \in {"x", "y", "z"} }

\* lines 227-246: the dict of the readable scalar slots, nested objects
\* flattened one level, lists and dicts dropped
ExtractMsgDict(m) ==
    LET readable == { s \in DOMAIN m.attrs : \E i \in DOMAIN m.slots : m.slots[i] = s }
        kept == { s \in readable : ~IsList(m.attrs[s]) /\ ~IsDict(m.attrs[s]) }
    IN [s \in kept |->
          LET value == m.attrs[s]
          IN IF ~HasSlots(value) THEN value
             ELSE Dict([ns \in { n \in DOMAIN value.attrs :
                                   /\ \E i \in DOMAIN value.slots : value.slots[i] = n
                                   /\ ~HasSlots(value.attrs[n]) }
                          |-> value.attrs[ns]])]

\* dict.get(key, default)
Get(d, key, default) == IF key \in DOMAIN d THEN d[key] ELSE default

\* math.cos(a * 0.5) and math.sin(a * 0.5) for a = n * pi
CosHalf(n) == IF n % 4 = 0 THEN 1 ELSE IF n % 4 = 2 THEN -1 ELSE 0
SinHalf(n) == IF n % 4 = 1 THEN 1 ELSE IF n % 4 = 3 THEN -1 ELSE 0

\* lines 114-122: the three components of a velocity, 0.0 where absent
Components(vel) ==
    [c \in {"x", "y", "z"} |-> Get(vel.items, c, Num(0))]

\* a converter that indexes the altitude instead of defaulting it
convert_devpvt_to_odometry_strict(devpvt_msg, timestamp) ==
    LET lon == Get(devpvt_msg, "longitude", Num(0))
        lat == Get(devpvt_msg, "latitude", Num(0))
        roll == Get(devpvt_msg, "roll", Num(0))
        pitch == Get(devpvt_msg, "pitch", Num(0))
        yaw == Get(devpvt_msg, "yaw", Num(0))
        enu_vel == Get(devpvt_msg, "enu_velocity", Dict(<< >>))
        vehicle_ang_vel == Get(devpvt_msg, "vehicle_angular_velocity", Dict(<< >>))
    IN IF \/ ~IsNum(lon) \/ ~IsNum(lat)
          \/ "altitude" \notin DOMAIN devpvt_msg
          \/ ~IsNum(roll) \/ ~IsNum(pitch) \/ ~IsNum(yaw)
          \/ ~IsDict(enu_vel) \/ ~IsDict(vehicle_ang_vel)
       THEN Raise
       ELSE LET cy == CosHalf(yaw.n)
                sy == SinHalf(yaw.n)
                cp == CosHalf(pitch.n)
                sp == SinHalf(pitch.n)
                cr == CosHalf(roll.n)
                sr == SinHalf(roll.n)
            IN [k |-> "odom", stamp |-> timestamp,
                x |-> Num(lon.n * DegToMap), y |-> Num(lat.n * DegToMap),
                z |-> devpvt_msg["altitude"],
                orientation |-> [w |-> cr * cp * cy + sr * sp * sy,
                                 x |-> sr * cp * cy - cr * sp * sy,
                                 y |-> cr * sp * cy + sr * cp * sy,
                                 z |-> cr * cp * sy - sr * sp * cy],
                linear |-> Components(enu_vel),
                angular |-> Components(vehicle_ang_vel)]

\* convert_devpvt_to_odometry, lines 77-124: the Odometry message, or Raise
\* when a coordinate or an angle cannot be multiplied or a velocity is no dict
convert_devpvt_to_odometry(devpvt_msg, timestamp) ==
    LET lon == Get(devpvt_msg, "longitude", Num(0))
        lat == Get(devpvt_msg, "latitude", Num(0))
        alt == Get(devpvt_msg, "altitude", Num(0))
        roll == Get(devpvt_msg, "roll", Num(0))
        pitch == Get(devpvt_msg, "pitch", Num(0))
        yaw == Get(devpvt_msg, "yaw", Num(0))
        enu_vel == Get(devpvt_msg, "enu_velocity", Dict(<< >>))
        vehicle_ang_vel == Get(devpvt_msg, "vehicle_angular_velocity", Dict(<< >>))
    IN IF \/ ~IsNum(lon) \/ ~IsNum(lat)
          \/ ~IsNum(roll) \/ ~IsNum(pitch) \/ ~IsNum(yaw)
          \/ ~IsDict(enu_vel) \/ ~IsDict(vehicle_ang_vel)
       THEN Raise
       ELSE LET cy == CosHalf(yaw.n)
                sy == SinHalf(yaw.n)
                cp == CosHalf(pitch.n)
                sp == SinHalf(pitch.n)
                cr == CosHalf(roll.n)
                sr == SinHalf(roll.n)
            IN [k |-> "odom", stamp |-> timestamp,
                x |-> Num(lon.n * DegToMap), y |-> Num(lat.n * DegToMap),
                z |-> alt,
                orientation |-> [w |-> cr * cp * cy + sr * sp * sy,
                                 x |-> sr * cp * cy - cr * sp * sy,
                                 y |-> cr * sp * cy + sr * cp * sy,
                                 z |-> cr * cp * sy - sr * sp * cy],
                linear |-> Components(enu_vel),
                angular |-> Components(vehicle_ang_vel)]

\* self.state_pub.publish(odom) cannot serialize a field that is not a number
PublishRaises(odom) ==
    \/ ~IsNum(odom.x) \/ ~IsNum(odom.y) \/ ~IsNum(odom.z)
    \/ \E c \in {"x", "y", "z"} : ~IsNum(odom.linear[c]) \/ ~IsNum(odom.angular[c])

\* the slice h[-n:]
LastN(h, n) == IF Len(h) <= n THEN h ELSE SubSeq(h, Len(h) - n + 1, Len(h))
\* the slice h[:n]
FirstN(h, n) == IF Len(h) <= n THEN h ELSE SubSeq(h, 1, n)

PoseOf(pos) == [stamp |-> pos.timestamp, x |-> pos.x, y |-> pos.y, z |-> pos.z,
                orientation |-> pos.orientation]

\* a path built from the oldest points
generate_path_oldest(h) ==
    IF Len(h) < MinPathPoints THEN None
    ELSE Some([i \in DOMAIN FirstN(h, PathWindow) |-> PoseOf(FirstN(h, PathWindow)[i])])

\* generate_path, lines 146-177: None, or the poses of the last 100 points
generate_path(h) ==
    IF Len(h) < MinPathPoints THEN None
    ELSE Some([i \in DOMAIN LastN(h, PathWindow) |-> PoseOf(LastN(h, PathWindow)[i])])

\* a trigger that fires on every record once ten are held
PathDueAlways(h) == Len(h) >= PathEvery

\* line 261
PathDue(h) == Len(h) % PathEvery = 0

PubInit ==
    /\ ppc = "start"
    /\ pbag_open = FALSE
    /\ nread = 0
    /\ record = NoValue
    /\ path_history = << >>
    /\ accepted = 0
    /\ state_published = 0
    /\ published_odom = NoValue
    /\ paths_published = 0
    /\ published_path = << >>

PubIdle ==
    /\ ppc = "idle"
    /\ pbag_open = FALSE
    /\ nread = 0
    /\ record = NoValue
    /\ path_history = << >>
    /\ accepted = 0
    /\ state_published = 0
    /\ published_odom = NoValue
    /\ paths_published = 0
    /\ published_path = << >>

\* lines 182-189
PubOpen ==
    /\ ppc = "start"
    /\ pbag_open' = TRUE
    /\ ppc' = "loop"
    /\ UNCHANGED <<nread, record, path_history, accepted, state_published,
                   published_odom, paths_published, published_path>>
    /\ UNCHANGED <<serVars, extVars, dbcVars>>

\* the point of lines 252-258
HistoryPoint(odom, current_time) ==
    [timestamp |-> current_time,
     x |-> odom.x.n, y |-> odom.y.n, z |-> odom.z.n,
     orientation |-> odom.orientation]

\* a handler whose failed publication still leaves a pose on /state_estimation
HandleNavFailedPublished(m, current_time) ==
    LET msg_dict == ExtractMsgDict(m)
        odom == convert_devpvt_to_odometry(msg_dict, current_time)
    IN IF odom = Raise
       THEN UNCHANGED <<path_history, accepted, state_published, published_odom,
                        paths_published, published_path>>
       ELSE IF PublishRaises(odom)
       THEN /\ state_published' = state_published + 1
            /\ UNCHANGED <<path_history, accepted, published_odom,
                           paths_published, published_path>>
       ELSE LET h == Append(path_history, HistoryPoint(odom, current_time))
                path == IF PathDue(h) THEN generate_path(h) ELSE None
            IN /\ state_published' = state_published + 1
               /\ published_odom' = odom
               /\ path_history' = h
               /\ accepted' = accepted + 1
               /\ IF ~IsNone(path)
                  THEN /\ paths_published' = paths_published + 1
                       /\ published_path' = Val(path)
                  ELSE UNCHANGED <<paths_published, published_path>>

\* lines 224-268 for one record m read at current_time
HandleNav(m, current_time) ==
    LET msg_dict == ExtractMsgDict(m)
        odom == convert_devpvt_to_odometry(msg_dict, current_time)
    IN IF odom = Raise
       THEN UNCHANGED <<path_history, accepted, state_published, published_odom,
                        paths_published, published_path>>
       ELSE IF PublishRaises(odom)
       THEN UNCHANGED <<path_history, accepted, state_published, published_odom,
                        paths_published, published_path>>
       ELSE LET h == Append(path_history, HistoryPoint(odom, current_time))
                path == IF PathDue(h) THEN generate_path(h) ELSE None
            IN /\ state_published' = state_published + 1
               /\ published_odom' = odom
               /\ path_history' = h
               /\ accepted' = accepted + 1
               /\ IF ~IsNone(path)
                  THEN /\ paths_published' = paths_published + 1
                       /\ published_path' = Val(path)
                  ELSE UNCHANGED <<paths_published, published_path>>

\* one turn of the loop on a record of /chcnav/devpvt
PubDevpvt ==
    /\ ppc = "loop"
    /\ nread < MaxRecords
    /\ \E m \in {NavFull} \cup NavOdd \cup NavMissing :
         /\ m \in NavOdd => nread < OddUntil
         /\ m \in NavMissing \ NavOdd => nread < MissingUntil
         /\ record' = [topic |-> DevpvtTopic, msg |-> m]
         /\ HandleNav(m, nread + 1)
    /\ nread' = nread + 1
    /\ UNCHANGED <<ppc, pbag_open>>
    /\ UNCHANGED <<serVars, extVars, dbcVars>>

\* one turn of the loop on a record of another topic: the GPS fix is
\* forwarded (lines 201-221), the rest is passed over
PubOtherTopic ==
    /\ ppc = "loop"
    /\ nread < MaxRecords
    /\ nread < OddUntil
    /\ \E topic \in {FixTopic, LidarTopic} :
         record' = [topic |-> topic, msg |-> NavFull]
    /\ nread' = nread + 1
    /\ UNCHANGED <<ppc, pbag_open, path_history, accepted, state_published,
                   published_odom, paths_published, published_path>>
    /\ UNCHANGED <<serVars, extVars, dbcVars>>

\* the bag is exhausted: the finally clause closes it, lines 284-287
PubExhausted ==
    /\ ppc = "loop"
    /\ pbag_open' = FALSE
    /\ ppc' = "done"
    /\ UNCHANGED <<nread, record, path_history, accepted, state_published,
                   published_odom, paths_published, published_path>>
    /\ UNCHANGED <<serVars, extVars, dbcVars>>

\* rospy.is_shutdown() at line 194, or KeyboardInterrupt at line 282
PubStopped ==
    /\ ppc = "loop"
    /\ nread < MaxRecords
    /\ pbag_open' = FALSE
    /\ ppc' = "done"
    /\ UNCHANGED <<nread, record, path_history, accepted, state_published,
                   published_odom, paths_published, published_path>>
    /\ UNCHANGED <<serVars, extVars, dbcVars>>

(***************************************************************************)
(* Claims about the publisher loop, checked under Spec.                    *)
(***************************************************************************)
\* C2: a path published on /path holds at most 100 poses, and they are the
\* most recently appended history points in the order they were appended;
\* past 100 accepted records these are exactly the last 100.
C2_PathIsLastHundred ==
    [][paths_published' # paths_published =>
          LET n == Len(published_path')
              h == path_history'
          IN /\ n <= PathWindow
             /\ n <= Len(h)
             /\ accepted' > PathWindow => n = PathWindow
             /\ \A i \in 1..n :
                   /\ published_path'[i].stamp = h[Len(h) - n + i].timestamp
                   /\ published_path'[i].x = h[Len(h) - n + i].x
                   /\ published_path'[i].y = h[Len(h) - n + i].y
                   /\ published_path'[i].z = h[Len(h) - n + i].z]_vars

\* C2 witness: a path of 100 poses was published after 110 accepted records,
\* the ten oldest points left out.
C2_Witness ==
    /\ accepted = 110
    /\ paths_published = 11
    /\ Len(published_path) = PathWindow
    /\ published_path[1].stamp = path_history[11].timestamp
    /\ published_path[1].stamp > path_history[1].timestamp

\* C3: a path is published only right after an accepted navigation record
\* whose number is a multiple of 10, with at least 2 points held; and every
\* such record does publish one.
C3_BatchTrigger ==
    [][/\ paths_published' # paths_published =>
            /\ accepted' = accepted + 1
            /\ accepted' % 10 = 0
            /\ Len(path_history') >= 2
            /\ paths_published' = paths_published + 1
       /\ (accepted' = accepted + 1 /\ accepted' % 10 = 0) =>
            paths_published' = paths_published + 1]_vars

\* C3 witness: the 110th accepted record, read after some record was passed
\* over, has published the eleventh path.
C3_Witness ==
    /\ accepted = 110
    /\ nread > 110
    /\ paths_published = 11
    /\ published_path[Len(published_path)].stamp = nread

\* C8: the history holds at most a fixed number of points, whatever the
\* number of records accepted: some cap below the length of the run bounds it.
C8_HistoryCapped == \E cap \in 1..(MaxRecords - 1) : Len(path_history) <= cap

\* the slots of m that can be read
Readable(m) == { s \in DOMAIN m.attrs : s \in SlotNames(m) }

VelocitySlots == {"enu_velocity", "vehicle_angular_velocity"}

\* field s, or component c of velocity v, is missing from the record m
Missing(m, s) == s \notin Readable(m)
MissingIn(m, v, c) == Missing(m, v) \/ c \notin Readable(m.attrs[v])

\* every field the record does carry is a number, every velocity an object
\* of numbers
PresentFieldsNumeric(m) ==
    \A s \in Readable(m) :
        IF s \in VelocitySlots
        THEN /\ HasSlots(m.attrs[s])
             /\ \A c \in Readable(m.attrs[s]) : IsNum(m.attrs[s].attrs[c])
        ELSE IsNum(m.attrs[s])

\* the record m with a zero written into every missing field
FieldOrZero(m, s) == IF Missing(m, s) THEN Num(0) ELSE m.attrs[s]
ComponentOrZero(m, v, c) == IF MissingIn(m, v, c) THEN Num(0) ELSE m.attrs[v].attrs[c]
VelocityOrZero(m, v) ==
    SlotObj(VecSlots, [x |-> ComponentOrZero(m, v, "x"),
                       y |-> ComponentOrZero(m, v, "y"),
                       z |-> ComponentOrZero(m, v, "z")])
ZeroFilled(m) ==
    SlotObj(NavSlots,
        [latitude |-> FieldOrZero(m, "latitude"),
         longitude |-> FieldOrZero(m, "longitude"),
         altitude |-> FieldOrZero(m, "altitude"),
         roll |-> FieldOrZero(m, "roll"),
         pitch |-> FieldOrZero(m, "pitch"),
         yaw |-> FieldOrZero(m, "yaw"),
         enu_velocity |-> VelocityOrZero(m, "enu_velocity"),
         vehicle_angular_velocity |-> VelocityOrZero(m, "vehicle_angular_velocity")])

\* C14: the turn of the loop on a navigation record whose fields are numbers
\* where present publishes a pose and appends a point; the pose has 0 for
\* every missing coordinate, angle and velocity component: it is the pose of
\* the record completed with zeros.
C14_MissingFieldDefaults ==
    [][ ( /\ nread' = nread + 1
          /\ record'.topic = DevpvtTopic
          /\ PresentFieldsNumeric(record'.msg) )
        => LET m == record'.msg
               odom == published_odom'
               point == path_history'[Len(path_history')]
           IN /\ state_published' = state_published + 1
              /\ Len(path_history') = Len(path_history) + 1
              /\ \A filled \in { ZeroFilled(m) } :
                    \A msg_dict \in { ExtractMsgDict(filled) } :
                        odom = convert_devpvt_to_odometry(msg_dict, nread')
              /\ Missing(m, "longitude") => odom.x = Num(0)
              /\ Missing(m, "latitude") => odom.y = Num(0)
              /\ Missing(m, "altitude") => odom.z = Num(0)
              /\ (Missing(m, "roll") /\ Missing(m, "pitch") /\ Missing(m, "yaw"))
                    => odom.orientation = [w |-> 1, x |-> 0, y |-> 0, z |-> 0]
              /\ \A c \in {"x", "y", "z"} :
                    /\ MissingIn(m, "enu_velocity", c) => odom.linear[c] = Num(0)
                    /\ MissingIn(m, "vehicle_angular_velocity", c)
                          => odom.angular[c] = Num(0)
              /\ point = [timestamp |-> nread', x |-> odom.x.n, y |-> odom.y.n,
                          z |-> odom.z.n, orientation |-> odom.orientation] ]_vars

\* C14 witness: a record without altitude, read after another record, was
\* published with Z = 0 and its point appended.
C14_Witness ==
    /\ nread = 2
    /\ record.topic = DevpvtTopic
    /\ record.msg = NavNoAltitude
    /\ published_odom.stamp = 2
    /\ published_odom.x = Num(2 * DegToMap)
    /\ published_odom.z = Num(0)
    /\ path_history[Len(path_history)].timestamp = 2
    /\ path_history[Len(path_history)].z = 0

\* C15: a turn of the loop on a record of a topic other than /chcnav/devpvt
\* changes neither the history nor what was published on /state_estimation
\* and /path; and after every turn the number of poses published on
\* /state_estimation is the length of the history.
C15_FrameAndCount ==
    /\ [](state_published = Len(path_history))
    /\ [][ (nread' = nread + 1 /\ record'.topic # DevpvtTopic)
            => UNCHANGED <<path_history, accepted, state_published,
                           published_odom, paths_published, published_path>> ]_vars

\* C15 witness: after one accepted navigation record, one whose publication
\* failed and one GPS fix, one pose is published and one point held.
C15_Witness ==
    /\ nread = 3
    /\ record.topic = FixTopic
    /\ state_published = 1
    /\ Len(path_history) = 1
    /\ path_history[1].timestamp = 1

(***************************************************************************)
(* parse_dbc (dbc-to-json.py:19-77).  The database is walked message by    *)
(* message and signal by signal; db holds what has been walked.            *)
(***************************************************************************)
MaxMsgs == 2        \* messages in the database
MaxSignals == 2     \* signals in one message

Signal(name, start, length, scale, offset, unit, byte_order) ==
    [name |-> name, start |-> start, length |-> length, scale |-> scale,
     offset |-> offset, unit |-> unit, byte_order |-> byte_order]

DeclaredSignals ==
    { Signal("s1", 0, 8, 3, -40, "degC", "little_endian"),
      Signal("s1", 8, 16, 0, 0, "rpm", "big_endian"),
      Signal("s2", 0, 8, 0, -40, "", "little_endian"),
      Signal("s2", 60, 8, 1, 0, "", "big_endian") }

\* a descriptor that takes the start bit for the length
sig_def_swapped(signal) ==
    [name |-> signal.name,
     startBit |-> signal.length,
     length |-> signal.start,
     factor |-> IF signal.scale # 0 THEN signal.scale ELSE 1,
     offset |-> IF signal.offset # 0 THEN signal.offset ELSE 0,
     unit |-> signal.unit,
     endianness |-> IF signal.byte_order = "big_endian" THEN "big" ELSE "little"]

\* lines 30-38
sig_def(signal) ==
    [name |-> signal.name,
     startBit |-> signal.start,
     length |-> signal.length,
     factor |-> IF signal.scale # 0 THEN signal.scale ELSE 1,
     offset |-> IF signal.offset # 0 THEN signal.offset ELSE 0,
     unit |-> signal.unit,
     endianness |-> IF signal.byte_order = "big_endian" THEN "big" ELSE "little"]

\* line 21: cantools.database.load_file(dbc_path) loads strictly.  A signal is
\* laid out from its start bit: upwards for little_endian; for big_endian the
\* start bit is the most significant one and the bits run down the byte and
\* on into the next byte.
StartBit(signal) ==
    IF signal.byte_order = "big_endian"
    THEN 8 * (signal.start \div 8) + (7 - (signal.start % 8))
    ELSE signal.start

SignalBits(signal) ==
    IF signal.byte_order = "big_endian"
    THEN { 8 * (p \div 8) + (7 - (p % 8)) :
             p \in StartBit(signal)..(StartBit(signal) + signal.length - 1) }
    ELSE signal.start..(signal.start + signal.length - 1)

\* the strict load raises for a signal that does not fit in its message or
\* that overlaps another signal of the message
Loadable(message, signal) ==
    /\ StartBit(signal) + signal.length <= 8 * message.length
    /\ \A i \in DOMAIN message.signals :
          SignalBits(message.signals[i]) \cap SignalBits(signal) = {}

DbcInit ==
    /\ dpc = "messages"
    /\ db = << >>
    /\ signals = << >>
    /\ dbc_messages = << >>

DbcIdle ==
    /\ dpc = "idle"
    /\ db = << >>
    /\ signals = << >>
    /\ dbc_messages = << >>

\* line 26-27: the next message of db.messages
DbcMessage ==
    /\ dpc = "messages"
    /\ Len(db) < MaxMsgs
    /\ db' = Append(db, [frame_id |-> 256 + Len(db), name |-> "M", length |-> 8,
                         signals |-> << >>])
    /\ signals' = << >>
    /\ dpc' = "signals"
    /\ UNCHANGED dbc_messages
    /\ UNCHANGED <<serVars, extVars, pubVars>>

\* line 21: the file declares a further signal that load_file refuses; the
\* exception leaves parse_dbc, which returns nothing
DbcLoadRaises ==
    /\ dpc = "signals"
    /\ Len(signals) < MaxSignals
    /\ \E signal \in DeclaredSignals :
         /\ ~Loadable(db[Len(db)], signal)
         /\ db' = [db EXCEPT ![Len(db)].signals = Append(@, signal)]
    /\ signals' = << >>
    /\ dbc_messages' = << >>
    /\ dpc' = "raised"
    /\ UNCHANGED <<serVars, extVars, pubVars>>

\* lines 29-56: the next signal of message.signals
DbcSignal ==
    /\ dpc = "signals"
    /\ Len(signals) < MaxSignals
    /\ \E signal \in DeclaredSignals :
         /\ Loadable(db[Len(db)], signal)
         /\ db' = [db EXCEPT ![Len(db)].signals = Append(@, signal)]
         /\ signals' = Append(signals, sig_def(signal))
    /\ UNCHANGED <<dpc, dbc_messages>>
    /\ UNCHANGED <<serVars, extVars, pubVars>>

\* lines 58-72
DbcMessageDone ==
    /\ dpc = "signals"
    /\ LET message == db[Len(db)]
       IN dbc_messages' = Append(dbc_messages,
              [id |-> message.frame_id, name |-> message.name,
               length |-> message.length, signals |-> signals])
    /\ dpc' = "messages"
    /\ UNCHANGED <<db, signals>>
    /\ UNCHANGED <<serVars, extVars, pubVars>>

\* lines 74-77
DbcReturn ==
    /\ dpc = "messages"
    /\ dpc' = "done"
    /\ UNCHANGED <<db, signals, dbc_messages>>
    /\ UNCHANGED <<serVars, extVars, pubVars>>

(***************************************************************************)
(* Claims about parse_dbc, checked under SpecDbc.                          *)
(***************************************************************************)
\* the descriptors emitted so far, message by message
EmittedSignals(m) == IF m <= Len(dbc_messages) THEN dbc_messages[m].signals
                     ELSE signals

\* C10 as stated: of a database that loaded, every descriptor carries the declared start, length, scale
\* and offset of its signal, for all declared values.
C10_RoundTripAllValues ==
    dpc # "raised" => \A m \in DOMAIN db :
        /\ Len(EmittedSignals(m)) = Len(db[m].signals)
        /\ \A i \in DOMAIN db[m].signals :
              /\ EmittedSignals(m)[i].startBit = db[m].signals[i].start
              /\ EmittedSignals(m)[i].length = db[m].signals[i].length
              /\ EmittedSignals(m)[i].factor = db[m].signals[i].scale
              /\ EmittedSignals(m)[i].offset = db[m].signals[i].offset

\* C10 amended: of a database that loaded, every descriptor carries the declared start, length and
\* offset, and the declared scale unless that is 0, where the factor is 1.
C10_RoundTripNonZeroScale ==
    dpc # "raised" => \A m \in DOMAIN db :
        /\ Len(EmittedSignals(m)) = Len(db[m].signals)
        /\ \A i \in DOMAIN db[m].signals :
              /\ EmittedSignals(m)[i].startBit = db[m].signals[i].start
              /\ EmittedSignals(m)[i].length = db[m].signals[i].length
              /\ EmittedSignals(m)[i].offset = db[m].signals[i].offset
              /\ db[m].signals[i].scale # 0 =>
                    EmittedSignals(m)[i].factor = db[m].signals[i].scale
              /\ db[m].signals[i].scale = 0 => EmittedSignals(m)[i].factor = 1

\* C10 witness: parse_dbc has returned two messages, one with a signal of
\* scale 3 and offset -40, one with a signal of scale 0.
C10_Witness ==
    /\ dpc = "done"
    /\ Len(dbc_messages) = 2
    /\ \E i \in DOMAIN db[1].signals :
          /\ db[1].signals[i].scale = 3
          /\ db[1].signals[i].offset = -40
          /\ dbc_messages[1].signals[i].factor = 3
          /\ dbc_messages[1].signals[i].offset = -40
    /\ \E i \in DOMAIN db[2].signals :
          /\ db[2].signals[i].scale = 0
          /\ dbc_messages[2].signals[i].factor = 1

\* a layout the decoder is to refuse: a signal whose start bit plus bit
\* length exceeds the capacity of the frame, or two signals of one name
LayoutInvalid(message) ==
    \/ \E i \in DOMAIN message.signals :
          message.signals[i].start + message.signals[i].length
              > message.length * 8
    \/ \E i, j \in DOMAIN message.signals :
          i # j /\ message.signals[i].name = message.signals[j].name

\* what parse_dbc hands back: the list of line 75, nothing when it raised
Returned == IF dpc = "done" THEN dbc_messages ELSE << >>

DescriptorsReturned(message) ==
    \E k \in DOMAIN Returned : Returned[k].id = message.frame_id

\* C11: when parse_dbc has ended, no list of descriptors has been returned
\* for a layout with a signal beyond the frame capacity or with two signals
\* of one name, and every other layout of the same input has been decoded.
C11_LayoutValidation ==
    dpc \in {"done", "raised"} =>
        \A m \in DOMAIN db :
            LayoutInvalid(db[m]) =>
                /\ ~DescriptorsReturned(db[m])
                /\ \A o \in DOMAIN db :
                      ~LayoutInvalid(db[o]) => DescriptorsReturned(db[o])

(***************************************************************************)
(* Specifications.                                                         *)
(***************************************************************************)
NextSerialize == Serialize \/ Reserialize

InitSerialize == SerInit /\ ExtIdle /\ PubIdle /\ DbcIdle

SpecSerialize == InitSerialize /\ [][NextSerialize]_vars

NextExtract ==
    \/ ExtractTopicOpen
    \/ ReadMessage
    \/ ExtractTopicFinish
    \/ ExtractAllOpen
    \/ BeginTopic
    \/ EndTopic
    \/ ExtractAllClose

InitExtract == ExtInit /\ SerIdle /\ PubIdle /\ DbcIdle

SpecExtract == InitExtract /\ [][NextExtract]_vars

Next ==
    \/ PubOpen
    \/ PubDevpvt
    \/ PubOtherTopic
    \/ PubExhausted
    \/ PubStopped

Init == PubInit /\ SerIdle /\ ExtIdle /\ DbcIdle

Spec == Init /\ [][Next]_vars

NextDbc ==
    \/ DbcMessage
    \/ DbcLoadRaises
    \/ DbcSignal
    \/ DbcMessageDone
    \/ DbcReturn

InitDbc == DbcInit /\ SerIdle /\ ExtIdle /\ PubIdle

SpecDbc == InitDbc /\ [][NextDbc]_vars

====
